---- MODULE Spec2Model ----
(***************************************************************************)
(* Model of the in-memory table engine (Column, Table) and of the          *)
(* write-behind persistence queue (FileQueue).                             *)
(*                                                                         *)
(* JavaScript values are modelled as tokens: "undefined", "null", "NaN",   *)
(* the numbers 1 and 2 ("i1", "i2"), the numeric strings "1" and "2"       *)
(* ("s1", "s2"), the plain strings "old" and "new", the booleans ("true",   *)
(* "false"), the strings 'true' and 'false' ("'true'", "'false'") and the  *)
(* number 0 ("i0") with its string ("s0").  Row positions are zero-based   *)
(* as in the source; rows[p + 1] is the row at position p.                 *)
(***************************************************************************)
EXTENDS Integers, Sequences, FiniteSets, TLC

VARIABLES columns, rows, indexes, last, returned,
          queue, isProcessing, retryAttempts, inflight, timers, immediates,
          nextJob, written, dropped, anyFailed, attempts, cleared,
          tables, isInitializing, initPc, disk, dbLast, calls

tableVars == <<columns, rows, indexes, last, returned>>
queueVars == <<queue, isProcessing, retryAttempts, inflight, timers, immediates,
               nextJob, written, dropped, anyFailed, attempts, cleared>>
dbVars == <<tables, isInitializing, initPc, disk, dbLast, calls>>
vars == <<columns, rows, indexes, last, returned,
          queue, isProcessing, retryAttempts, inflight, timers, immediates,
          nextJob, written, dropped, anyFailed, attempts, cleared,
          tables, isInitializing, initPc, disk, dbLast, calls>>

(***************************************************************************)
(* Bounds                                                                  *)
(***************************************************************************)
MaxRows == 2
MaxJobs == 4

(***************************************************************************)
(* Values                                                                  *)
(***************************************************************************)
UNDEF == "undefined"
NULL == "null"
NaN == "NaN"
IntTokens == {"i0", "i1", "i2"}
NumericStrings == {"s0", "s1", "s2"}
PlainStrings == {"old", "new", "'true'", "'false'"}
Booleans == {"true", "false"}

\* a !== b of JavaScript: NaN differs from everything, itself included
StrictNe(a, b) == a # b \/ a = NaN

\* Number.isInteger(Number(value))
IsIntegerNumber(value) == value \in IntTokens \cup NumericStrings \cup Booleans

\* parseInt(value)
ParseInt(value) ==
  CASE value \in IntTokens -> value
    [] value = "s0" -> "i0"
    [] value = "s1" -> "i1"
    [] value = "s2" -> "i2"
    [] OTHER -> NaN

\* String(value)
StringOf(value) ==
  CASE value = "i0" -> "s0"
    [] value = "i1" -> "s1"
    [] value = "i2" -> "s2"
    [] value = "true" -> "'true'"
    [] value = "false" -> "'false'"
    [] OTHER -> value

\* Boolean(value): false for false, 0, NaN and the empty string only
BooleanOf(value) == IF value \in {"false", "i0", NaN} THEN "false" ELSE "true"

(***************************************************************************)
(* Column                                                                  *)
(***************************************************************************)
Column(name, type, primaryKey, unique) ==
  [name |-> name, type |-> type, primaryKey |-> primaryKey, unique |-> unique,
   nullable |-> TRUE, defaultValue |-> NULL]

Validate(column, value) ==
  IF value = NULL \/ value = UNDEF THEN column.nullable
  ELSE CASE column.type = "INTEGER" -> IsIntegerNumber(value)
         [] column.type = "STRING" -> value \in NumericStrings \cup PlainStrings
         [] column.type = "BOOLEAN" ->
              value \in Booleans \/ value = "'true'" \/ value = "'false'"
                \/ value = "i0" \/ value = "i1"
         [] OTHER -> FALSE

Serialize(column, value) ==
  IF value = NULL \/ value = UNDEF THEN NULL
  ELSE CASE column.type = "INTEGER" -> ParseInt(value)
         [] column.type = "STRING" -> StringOf(value)
         [] column.type = "BOOLEAN" -> BooleanOf(value)
         [] OTHER -> value

(***************************************************************************)
(* Table: helpers                                                          *)
(***************************************************************************)
ColumnNames(cols) == {cols[i].name : i \in 1..Len(cols)}
IsIndexed(column) == column.primaryKey \/ column.unique
IndexedNames(cols) == {cols[i].name : i \in {j \in 1..Len(cols) : IsIndexed(cols[j])}}

\* data[key] of a JavaScript object: undefined when the key is absent
Get(data, key) == IF key \in DOMAIN data THEN data[key] ELSE UNDEF

\* Object.keys(data)
ObjectKeys(data) == {k \in DOMAIN data : data[k] # UNDEF}

\* this.rows[i], undefined (an object without keys once spread) past the end
\* the entries of a Map (or the keys of an object) are modelled as a function
\* on the keys it has
EmptyMap == [x \in {} |-> NULL]

RowAt(rws, i) == IF i + 1 \in 1..Len(rws) THEN rws[i + 1] ELSE EmptyMap

createIndexes(cols) == [c \in IndexedNames(cols) |-> EmptyMap]

MapSet(m, k, v) == [x \in (DOMAIN m) \cup {k} |-> IF x = k THEN v ELSE m[x]]
MapDelete(m, k) == [x \in (DOMAIN m) \ {k} |-> m[x]]

SeqIncludes(s, e) == \E i \in 1..Len(s) : s[i] = e

updateIndex(idx, columnName, value, rowIndex) ==
  IF columnName \in DOMAIN idx
  THEN LET index == idx[columnName]
           indices == IF value \in DOMAIN index THEN index[value] ELSE <<>>
           pushed == IF SeqIncludes(indices, rowIndex) THEN indices
                     ELSE Append(indices, rowIndex)
       IN [idx EXCEPT ![columnName] = MapSet(index, value, pushed)]
  ELSE idx

removeFromIndex(idx, columnName, value, rowIndex) ==
  IF columnName \in DOMAIN idx /\ value \in DOMAIN idx[columnName]
  THEN LET index == idx[columnName]
           NotRow(i) == i # rowIndex
           updatedIndices == SelectSeq(index[value], NotRow)
       IN IF Len(updatedIndices) = 0
          THEN [idx EXCEPT ![columnName] = MapDelete(index, value)]
          ELSE [idx EXCEPT ![columnName] = MapSet(index, value, updatedIndices)]
  ELSE idx

findByIndex(rws, idx, columnName, value) ==
  IF columnName \in DOMAIN idx /\ value \in DOMAIN idx[columnName]
  THEN LET indices == idx[columnName][value]
       IN [i \in 1..Len(indices) |-> RowAt(rws, indices[i])]
  ELSE <<>>

(***************************************************************************)
(* Table: validateRow, insert, update, delete                              *)
(***************************************************************************)
\* the errors validateRow pushes for one column
ColumnErrors(rws, idx, column, data) ==
  LET value == Get(data, column.name)
      present == value # UNDEF /\ value # NULL
      existing == findByIndex(rws, idx, column.name, value)
      isSameRow == \A i \in 1..Len(existing) :
                     \E key \in ObjectKeys(data) :
                        StrictNe(data[key], Get(existing[i], key))
  IN IF ~column.nullable /\ ~present
     THEN {<<"required", column.name>>}
     ELSE (IF present /\ ~Validate(column, value)
           THEN {<<"invalid", column.name>>} ELSE {})
          \cup
          (IF column.unique /\ present /\ Len(existing) > 0 /\ ~isSameRow
           THEN {<<"duplicate", column.name>>} ELSE {})

validateRow(rws, idx, cols, data) ==
  LET errors == UNION {ColumnErrors(rws, idx, cols[i], data) : i \in 1..Len(cols)}
  IN [valid |-> errors = {}, errors |-> errors]

\* columns.forEach(column => if indexed, updateIndex(column.name, row[column.name], rowIndex))
RECURSIVE AddRowToIndexes(_, _, _, _, _)
AddRowToIndexes(idx, cols, k, row, rowIndex) ==
  IF k > Len(cols) THEN idx
  ELSE AddRowToIndexes(
         IF IsIndexed(cols[k])
         THEN updateIndex(idx, cols[k].name, row[cols[k].name], rowIndex)
         ELSE idx,
         cols, k + 1, row, rowIndex)

\* columns.forEach(column => if indexed, removeFromIndex(column.name, row[column.name], index))
RECURSIVE RemoveRowFromIndexes(_, _, _, _, _)
RemoveRowFromIndexes(idx, cols, k, row, rowIndex) ==
  IF k > Len(cols) THEN idx
  ELSE RemoveRowFromIndexes(
         IF IsIndexed(cols[k])
         THEN removeFromIndex(idx, cols[k].name, row[cols[k].name], rowIndex)
         ELSE idx,
         cols, k + 1, row, rowIndex)

\* the stored row insert builds from the candidate
\* mutant: the stored row is the candidate itself, its values serialized
NewRow_keepsInput(cols, data) ==
  [c \in ObjectKeys(data) |->
     IF c \in ColumnNames(cols)
     THEN Serialize(cols[CHOOSE i \in 1..Len(cols) : cols[i].name = c], data[c])
     ELSE data[c]]

NewRow(cols, data) ==
  [c \in ColumnNames(cols) |->
     LET column == cols[CHOOSE i \in 1..Len(cols) : cols[i].name = c]
     IN IF Get(data, c) # UNDEF THEN Serialize(column, data[c])
        ELSE column.defaultValue]

\* mutant: the row is stored and indexed before the validation result is looked at
insert_storesFirst(rws, idx, cols, data) ==
  LET validation == validateRow(rws, idx, cols, data)
      row == NewRow(cols, data)
      rowIndex == Len(rws)
  IN [rows |-> Append(rws, row),
      indexes |-> AddRowToIndexes(idx, cols, 1, row, rowIndex),
      success |-> validation.valid, errors |-> validation.errors,
      notified |-> IF validation.valid THEN 1 ELSE 0]

insert(rws, idx, cols, data) ==
  LET validation == validateRow(rws, idx, cols, data)
      row == NewRow(cols, data)
      rowIndex == Len(rws)
  IN IF ~validation.valid
     THEN [rows |-> rws, indexes |-> idx, success |-> FALSE,
           errors |-> validation.errors, notified |-> 0]
     ELSE [rows |-> Append(rws, row),
           indexes |-> AddRowToIndexes(idx, cols, 1, row, rowIndex),
           success |-> TRUE, errors |-> {}, notified |-> 1]

\* a predicate of the calling layer: every row, or the rows holding val in col
NoWhere == [col |-> "*", val |-> "*"]
Matches(where, row) == where = NoWhere \/ Get(row, where.col) = where.val

\* the positions the predicate selects, ascending
RECURSIVE MatchingPositions(_, _, _)
MatchingPositions(rws, where, i) ==
  IF i >= Len(rws) THEN <<>>
  ELSE (IF Matches(where, rws[i + 1]) THEN <<i>> ELSE <<>>)
       \o MatchingPositions(rws, where, i + 1)

\* updatedRow = {...row} with the serialized updates of the keys naming a column
UpdatedRow(cols, row, updates) ==
  [c \in DOMAIN row \cup (ObjectKeys(updates) \cap ColumnNames(cols)) |->
     IF c \in ObjectKeys(updates) /\ c \in ColumnNames(cols)
     THEN Serialize(cols[CHOOSE i \in 1..Len(cols) : cols[i].name = c], updates[c])
     ELSE row[c]]

\* changedIndexedColumns, in column order
ChangedIndexedColumns(cols, row, updatedRow) ==
  LET Changed(k) == IsIndexed(cols[k]) /\ StrictNe(row[cols[k].name], updatedRow[cols[k].name])
      RECURSIVE Collect(_)
      Collect(k) == IF k > Len(cols) THEN <<>>
                    ELSE (IF Changed(k) THEN <<cols[k].name>> ELSE <<>>) \o Collect(k + 1)
  IN Collect(1)

\* mutant: the old index entries of a changed column are left in place
RemoveOldEntries_none(idx, changed, k, row, index) == idx

\* changedIndexedColumns.forEach(({name, oldValue}) => removeFromIndex(name, oldValue, index))
RECURSIVE RemoveOldEntries(_, _, _, _, _)
RemoveOldEntries(idx, changed, k, row, index) ==
  IF k > Len(changed) THEN idx
  ELSE RemoveOldEntries(removeFromIndex(idx, changed[k], row[changed[k]], index),
                        changed, k + 1, row, index)

\* changedIndexedColumns.forEach(({name, newValue}) => updateIndex(name, newValue, index))
RECURSIVE AddNewEntries(_, _, _, _, _)
AddNewEntries(idx, changed, k, updatedRow, index) ==
  IF k > Len(changed) THEN idx
  ELSE AddNewEntries(updateIndex(idx, changed[k], updatedRow[changed[k]], index),
                     changed, k + 1, updatedRow, index)

\* mutant: once a row has failed validation, the rows after it are skipped
UpdateOne_abortsAfterError(st, cols, index, row, updates) ==
  LET updatedRow == UpdatedRow(cols, row, updates)
      validation == validateRow(st.rows, st.indexes, cols, updatedRow)
      changed == ChangedIndexedColumns(cols, row, updatedRow)
      removed == RemoveOldEntries(st.indexes, changed, 1, row, index)
      newRows == [st.rows EXCEPT ![index + 1] = updatedRow]
  IN IF st.errors # {}
     THEN st
     ELSE IF ~validation.valid
     THEN [st EXCEPT !.errors = @ \cup {<<index, e[1], e[2]>> : e \in validation.errors}]
     ELSE [st EXCEPT !.rows = newRows,
                     !.indexes = AddNewEntries(removed, changed, 1, updatedRow, index),
                     !.affected = @ + 1]

\* one iteration of update's second loop, for the row snapshot taken at position index
UpdateOne(st, cols, index, row, updates) ==
  LET updatedRow == UpdatedRow(cols, row, updates)
      validation == validateRow(st.rows, st.indexes, cols, updatedRow)
      changed == ChangedIndexedColumns(cols, row, updatedRow)
      removed == RemoveOldEntries(st.indexes, changed, 1, row, index)
      newRows == [st.rows EXCEPT ![index + 1] = updatedRow]
  IN IF ~validation.valid
     THEN [st EXCEPT !.errors = @ \cup {<<index, e[1], e[2]>> : e \in validation.errors}]
     ELSE [st EXCEPT !.rows = newRows,
                     !.indexes = AddNewEntries(removed, changed, 1, updatedRow, index),
                     !.affected = @ + 1]

RECURSIVE UpdateLoop(_, _, _, _, _, _)
UpdateLoop(st, cols, snapshot, rowsToUpdate, k, updates) ==
  IF k > Len(rowsToUpdate) THEN st
  ELSE UpdateLoop(UpdateOne(st, cols, rowsToUpdate[k], snapshot[rowsToUpdate[k] + 1], updates),
                  cols, snapshot, rowsToUpdate, k + 1, updates)

update(rws, idx, cols, updates, where) ==
  LET rowsToUpdate == MatchingPositions(rws, where, 0)
      st == UpdateLoop([rows |-> rws, indexes |-> idx, affected |-> 0, errors |-> {}],
                       cols, rws, rowsToUpdate, 1, updates)
  IN [rows |-> st.rows, indexes |-> st.indexes, success |-> st.errors = {},
      rowsAffected |-> st.affected, errors |-> st.errors,
      notified |-> IF st.affected > 0 THEN 1 ELSE 0]

\* indexMap.forEach: shift the positions after index, then drop those equal to index
RenumberMap(indexMap, index) ==
  [value \in DOMAIN indexMap |->
     LET indices == indexMap[value]
         updatedIndices == [j \in 1..Len(indices) |->
                              IF indices[j] > index THEN indices[j] - 1 ELSE indices[j]]
         NotIndex(i) == i # index
     IN SelectSeq(updatedIndices, NotIndex)]

Renumber_none(idx, index) == idx

Renumber(idx, index) == [c \in DOMAIN idx |-> RenumberMap(idx[c], index)]

\* rows.splice(index, 1)
Splice(rws, index) ==
  [j \in 1..(Len(rws) - 1) |-> IF j < index + 1 THEN rws[j] ELSE rws[j + 1]]

\* mutant: the row is removed from the row storage only
DeleteOne_rowsOnly(st, cols, index) ==
  [rows |-> Splice(st.rows, index), indexes |-> st.indexes]

\* one iteration of delete's loop
DeleteOne(st, cols, index) ==
  LET row == st.rows[index + 1]
      stripped == RemoveRowFromIndexes(st.indexes, cols, 1, row, index)
  IN [rows |-> Splice(st.rows, index), indexes |-> Renumber(stripped, index)]

\* indicesToDelete.sort((a, b) => b - a)
Descending(s) == [k \in 1..Len(s) |-> s[Len(s) + 1 - k]]

RECURSIVE DeleteLoop(_, _, _, _)
DeleteLoop(st, cols, indicesToDelete, k) ==
  IF k > Len(indicesToDelete) THEN st
  ELSE DeleteLoop(DeleteOne(st, cols, indicesToDelete[k]), cols, indicesToDelete, k + 1)

delete(rws, idx, cols, where) ==
  LET indicesToDelete == Descending(MatchingPositions(rws, where, 0))
      st == DeleteLoop([rows |-> rws, indexes |-> idx], cols, indicesToDelete, 1)
  IN [rows |-> st.rows, indexes |-> st.indexes, success |-> TRUE,
      rowsAffected |-> Len(indicesToDelete),
      notified |-> IF Len(indicesToDelete) > 0 THEN 1 ELSE 0]

select(rws, where) == LET Keep(row) == Matches(where, row) IN SelectSeq(rws, Keep)

(***************************************************************************)
(* Table: the table under test and the calls made on it                    *)
(***************************************************************************)
\* column definitions handed to Database.createTable; a flag left out is absent
ColumnDefs ==
  { <<[name |-> "id", type |-> "INTEGER", primaryKey |-> TRUE],
      [name |-> "status", type |-> "STRING"]>>,
    <<[name |-> "id", type |-> "INTEGER", unique |-> TRUE],
      [name |-> "status", type |-> "STRING"]>> }

\* col.primaryKey || false
Flag(def, f) == f \in DOMAIN def /\ def[f]

\* mutant: the unique flag is passed where the primaryKey flag belongs, and back
tableColumns_swapsFlags(defs) ==
  [i \in 1..Len(defs) |->
     Column(defs[i].name, defs[i].type, Flag(defs[i], "unique"), Flag(defs[i], "primaryKey"))]

\* columns.map(col => new Column(col.name, col.type, col.primaryKey || false, col.unique || false))
tableColumns(defs) ==
  [i \in 1..Len(defs) |->
     Column(defs[i].name, defs[i].type, Flag(defs[i], "primaryKey"), Flag(defs[i], "unique"))]

InsertInputs ==
  { [id |-> a, status |-> b] : a \in {UNDEF, "i1", "i2", "s1", "old"}, b \in {"old", "new"} }
UpdateInputs ==
  { [id |-> UNDEF, status |-> UNDEF], [id |-> "i1", status |-> UNDEF],
    [id |-> "i2", status |-> UNDEF], [id |-> UNDEF, status |-> "new"] }
Wheres ==
  { NoWhere, [col |-> "id", val |-> "i1"], [col |-> "status", val |-> "old"] }

\* nothing returned yet
NoResult == <<>>

NoCall ==
  [op |-> "none", data |-> EmptyMap, where |-> NoWhere, success |-> TRUE,
   rowsAffected |-> 0, errors |-> {}, rowErrors |-> {}, notified |-> 0]

Insert(data) ==
  \E r \in {insert(rows, indexes, columns, data)} :
     /\ Len(r.rows) <= MaxRows
     /\ rows' = r.rows
     /\ indexes' = r.indexes
     /\ last' = [op |-> "insert", data |-> data, where |-> NoWhere,
                 success |-> r.success,
                 rowsAffected |-> IF r.success THEN 1 ELSE 0,
                 errors |-> r.errors, rowErrors |-> {}, notified |-> r.notified]
     /\ UNCHANGED <<columns, returned, queueVars, dbVars>>

Update(updates, where) ==
  \E r \in {update(rows, indexes, columns, updates, where)} :
     /\ rows' = r.rows
     /\ indexes' = r.indexes
     /\ last' = [op |-> "update", data |-> updates, where |-> where,
                 success |-> r.success, rowsAffected |-> r.rowsAffected,
                 errors |-> {}, rowErrors |-> r.errors, notified |-> r.notified]
     /\ UNCHANGED <<columns, returned, queueVars, dbVars>>

Delete(where) ==
  \E r \in {delete(rows, indexes, columns, where)} :
     /\ rows' = r.rows
     /\ indexes' = r.indexes
     /\ last' = [op |-> "delete", data |-> EmptyMap, where |-> where,
                 success |-> r.success, rowsAffected |-> r.rowsAffected,
                 errors |-> {}, rowErrors |-> {}, notified |-> r.notified]
     /\ UNCHANGED <<columns, returned, queueVars, dbVars>>

(***************************************************************************)
(* Table: reads, and what the caller does with the rows it was handed      *)
(***************************************************************************)
\* An element of a returned sequence is an object: its entries, and ref, the
\* position of the stored row it is the same object as (-1 for an object of
\* its own).
\* { ...row }
Copy(row) == [value |-> row, ref |-> -1]

\* mutant: the stored row objects themselves are handed out
selectCopies_shared(rws, where) ==
  LET pos == MatchingPositions(rws, where, 0)
  IN [k \in 1..Len(pos) |-> [value |-> rws[pos[k] + 1], ref |-> pos[k]]]

\* this.rows.map(row => ({ ...row })), this.rows.filter(where).map(row => ({ ...row }))
selectCopies(rws, where) ==
  LET found == select(rws, where)
  IN [k \in 1..Len(found) |-> Copy(found[k])]

\* indices.map(i => ({ ...this.rows[i] }))
findByIndexCopies(rws, idx, columnName, value) ==
  LET found == findByIndex(rws, idx, columnName, value)
  IN [k \in 1..Len(found) |-> Copy(found[k])]

ReadCall(op, where) ==
  [op |-> op, data |-> EmptyMap, where |-> where, success |-> TRUE,
   rowsAffected |-> 0, errors |-> {}, rowErrors |-> {}, notified |-> 0]

Select(where) ==
  /\ returned' = selectCopies(rows, where)
  /\ last' = ReadCall("select", where)
  /\ UNCHANGED <<columns, rows, indexes, queueVars, dbVars>>

FindByIndex(columnName, value) ==
  /\ returned' = findByIndexCopies(rows, indexes, columnName, value)
  /\ last' = ReadCall("findByIndex", [col |-> columnName, val |-> value])
  /\ UNCHANGED <<columns, rows, indexes, queueVars, dbVars>>

\* the caller assigns returned[k][key] = value; the assignment reaches a
\* stored row only when the element is that row's own object
ModifyReturned(k, key, value) ==
  /\ returned' = [returned EXCEPT ![k].value = MapSet(@, key, value)]
  /\ rows' = IF returned[k].ref >= 0 /\ returned[k].ref < Len(rows)
                  /\ rows[returned[k].ref + 1] = returned[k].value
               THEN [rows EXCEPT ![returned[k].ref + 1] = MapSet(@, key, value)]
               ELSE rows
  /\ last' = ReadCall("modifyReturned", NoWhere)
  /\ UNCHANGED <<columns, indexes, queueVars, dbVars>>

\* a table with a BOOLEAN column, candidates with keys naming no column and
\* with columns left out
ValueColumnDefs ==
  <<[name |-> "id", type |-> "INTEGER", primaryKey |-> TRUE],
    [name |-> "flag", type |-> "BOOLEAN"]>>
BooleanInputs == {"true", "false", "'true'", "'false'", "i0", "i1", "i2"}
ValueInsertInputs ==
  { [id |-> a, flag |-> b] : a \in {"i1", "i2"}, b \in BooleanInputs }
    \cup { [id |-> "i1"], [id |-> "i2", extra |-> "old"] }
ValueUpdateInputs ==
  { [flag |-> b] : b \in BooleanInputs }
    \cup { [extra |-> "new"], [flag |-> "true", extra |-> "new"] }
ValueWheres ==
  { NoWhere, [col |-> "id", val |-> "i1"], [col |-> "flag", val |-> "true"] }

\* the calls made on the table that is read
ReadInsertInputs == { [id |-> "i1", flag |-> "true"], [id |-> "i2", flag |-> "false"] }
ReadUpdateInputs == { [flag |-> "false"] }
ReadUpdateWheres == { NoWhere, [col |-> "id", val |-> "i1"] }
ReadDeleteWheres == { [col |-> "id", val |-> "i1"] }
ReadSelectWheres == { NoWhere, [col |-> "flag", val |-> "true"] }
ReadLookups == { [col |-> "id", val |-> "i1"], [col |-> "flag", val |-> "true"] }

(***************************************************************************)
(* FileQueue                                                               *)
(***************************************************************************)
MAX_RETRIES == 3
Paths == {"a.json", "b.json"}

\* this.retryAttempts.get(filePath) || 0
RetryCount(counters, filePath) ==
  IF filePath \in DOMAIN counters THEN counters[filePath] ELSE 0

RemoveAt(s, k) == [j \in 1..(Len(s) - 1) |-> IF j < k THEN s[j] ELSE s[j + 1]]

\* mutant: finding the queue empty does not reset isProcessing
processQueue_keepsFlag(q, infl) ==
  IF Len(q) = 0
  THEN [queue |-> q, isProcessing |-> isProcessing, inflight |-> infl]
  ELSE [queue |-> Tail(q), isProcessing |-> TRUE,
        inflight |-> Append(infl, [item |-> Head(q), phase |-> "mkdir"])]

\* processQueue up to its first await: the head job goes in flight, or the
\* queue is found empty and processing stops
processQueue(q, infl) ==
  IF Len(q) = 0
  THEN [queue |-> q, isProcessing |-> FALSE, inflight |-> infl]
  ELSE [queue |-> Tail(q), isProcessing |-> TRUE,
        inflight |-> Append(infl, [item |-> Head(q), phase |-> "mkdir"])]

\* the write attempts started so far per job, once processQueue has run on q
\* (the count saturates one above the most the retry policy allows)
AttemptsAfter(att, q) ==
  IF Len(q) = 0
  THEN att
  ELSE [att EXCEPT ![Head(q).data] = IF @ > MAX_RETRIES + 1 THEN @ ELSE @ + 1]

\* a counter per job, extended by the job being enqueued
WithNewJob(f) == [j \in 1..(nextJob + 1) |-> IF j <= nextJob THEN f[j] ELSE 0]

\* the data of a job whose content plays no part
NoContent == [name |-> "none"]

InitQueueVars ==
  /\ queue = <<>>
  /\ isProcessing = FALSE
  /\ retryAttempts = EmptyMap
  /\ inflight = <<>>
  /\ timers = <<>>
  /\ immediates = 0
  /\ nextJob = 0
  /\ written = [j \in {} |-> 0]
  /\ dropped = {}
  /\ anyFailed = FALSE
  /\ attempts = [j \in {} |-> 0]
  /\ cleared = {}

\* the effect of enqueue(filePath, data) on the queue; the job carries its
\* number (data) next to what is to be written (content)
enqueueJob(filePath, content) ==
  LET item == [filePath |-> filePath, data |-> nextJob + 1, content |-> content]
      pushed == Append(queue, item)
      p == processQueue(pushed, inflight)
  IN /\ nextJob < MaxJobs
     /\ nextJob' = nextJob + 1
     /\ written' = WithNewJob(written)
     /\ IF ~isProcessing
        THEN /\ queue' = p.queue
             /\ isProcessing' = p.isProcessing
             /\ inflight' = p.inflight
             /\ attempts' = AttemptsAfter(WithNewJob(attempts), pushed)
        ELSE /\ queue' = pushed
             /\ attempts' = WithNewJob(attempts)
             /\ UNCHANGED <<isProcessing, inflight>>
     /\ UNCHANGED <<retryAttempts, timers, immediates, dropped, anyFailed, cleared>>

\* mutant: enqueue starts processing without looking at isProcessing
enqueue_alwaysStarts(filePath) ==
  LET item == [filePath |-> filePath, data |-> nextJob + 1, content |-> NoContent]
      p == processQueue(Append(queue, item), inflight)
  IN /\ nextJob < MaxJobs
     /\ nextJob' = nextJob + 1
     /\ written' = WithNewJob(written)
     /\ attempts' = AttemptsAfter(WithNewJob(attempts), Append(queue, item))
     /\ queue' = p.queue
     /\ isProcessing' = p.isProcessing
     /\ inflight' = p.inflight
     /\ UNCHANGED <<retryAttempts, timers, immediates, dropped, anyFailed, cleared, tableVars, dbVars>>

enqueue(filePath) == enqueueJob(filePath, NoContent) /\ UNCHANGED <<tableVars, dbVars>>

\* await fs.mkdir resolves
MkdirDone(k) ==
  /\ k \in 1..Len(inflight)
  /\ inflight[k].phase = "mkdir"
  /\ inflight' = [inflight EXCEPT ![k].phase = "writeFile"]
  /\ UNCHANGED <<queue, isProcessing, retryAttempts, timers, immediates,
                 nextJob, written, dropped, anyFailed, attempts, cleared, tableVars, dbVars>>

\* the file the database of the routes saves itself to
DbFilePath == "pesapal_db.json"

\* JSON.parse(JSON.stringify(object)) of a flat object: a key holding undefined
\* is left out and NaN becomes null
JsonObject(object) ==
  [k \in ObjectKeys(object) |-> IF object[k] = NaN THEN NULL ELSE object[k]]

\* JSON.parse(JSON.stringify(column)) of a schema's column: the flags are kept, a
\* defaultValue of undefined is left out
JsonColumn(column) ==
  [k \in {f \in DOMAIN column : f # "defaultValue" \/ column[f] # UNDEF} |->
     IF k = "defaultValue" /\ column[k] = NaN THEN NULL ELSE column[k]]

\* JSON.parse(JSON.stringify(data)) of a snapshot
JsonSnapshot(data) ==
  [name |-> data.name, version |-> data.version,
   tables |-> [i \in 1..Len(data.tables) |->
                 [name |-> data.tables[i].name,
                  schema |-> [name |-> data.tables[i].schema.name,
                              columns |-> [j \in 1..Len(data.tables[i].schema.columns) |->
                                             JsonColumn(data.tables[i].schema.columns[j])],
                              rowCount |-> data.tables[i].schema.rowCount],
                  rows |-> [j \in 1..Len(data.tables[i].rows) |->
                              JsonObject(data.tables[i].rows[j])]]]]

\* await fs.writeFile resolves
WriteSucceeded(k) ==
  /\ k \in 1..Len(inflight)
  /\ inflight[k].phase = "writeFile"
  /\ inflight' = RemoveAt(inflight, k)
  /\ retryAttempts' = MapDelete(retryAttempts, inflight[k].item.filePath)
  /\ written' = [written EXCEPT ![inflight[k].item.data] = @ + 1]
  /\ immediates' = immediates + 1
  /\ disk' = IF inflight[k].item.filePath = DbFilePath
             THEN JsonSnapshot(inflight[k].item.content)
             ELSE disk
  /\ UNCHANGED <<queue, isProcessing, timers, nextJob, dropped, anyFailed, attempts,
                 cleared, tableVars, tables, isInitializing, initPc, dbLast, calls>>

\* mutant: every retry waits the base delay
RetryDelay_constant(retryCount) == 100

\* the delay handed to setTimeout, in milliseconds
RetryDelay(retryCount) == 100 * (retryCount + 1)

\* mutant: the catch block retries while the counter is at most MAX_RETRIES
WriteFailed_offByOne(k) ==
  /\ k \in 1..Len(inflight)
  /\ LET item == inflight[k].item
         retryCount == RetryCount(retryAttempts, item.filePath)
     IN IF retryCount <= MAX_RETRIES
        THEN /\ retryAttempts' = MapSet(retryAttempts, item.filePath, retryCount + 1)
             /\ timers' = Append(timers, [item |-> item, delay |-> RetryDelay(retryCount)])
             /\ UNCHANGED <<immediates, dropped>>
        ELSE /\ retryAttempts' = MapDelete(retryAttempts, item.filePath)
             /\ immediates' = immediates + 1
             /\ dropped' = dropped \cup {item.data}
             /\ UNCHANGED timers
  /\ inflight' = RemoveAt(inflight, k)
  /\ anyFailed' = TRUE
  /\ UNCHANGED <<queue, isProcessing, nextJob, written, attempts, cleared, tableVars, dbVars>>

\* fs.mkdir, JSON.stringify or fs.writeFile throws: the catch block
WriteFailed(k) ==
  /\ k \in 1..Len(inflight)
  /\ LET item == inflight[k].item
         retryCount == RetryCount(retryAttempts, item.filePath)
     IN IF retryCount < MAX_RETRIES
        THEN /\ retryAttempts' = MapSet(retryAttempts, item.filePath, retryCount + 1)
             /\ timers' = Append(timers, [item |-> item, delay |-> RetryDelay(retryCount)])
             /\ UNCHANGED <<immediates, dropped>>
        ELSE /\ retryAttempts' = MapDelete(retryAttempts, item.filePath)
             /\ immediates' = immediates + 1
             /\ dropped' = dropped \cup {item.data}
             /\ UNCHANGED timers
  /\ inflight' = RemoveAt(inflight, k)
  /\ anyFailed' = TRUE
  /\ UNCHANGED <<queue, isProcessing, nextJob, written, attempts, cleared, tableVars, dbVars>>

\* mutant: the retried job is pushed at the back of the queue
TimerFires_toBack(k) ==
  /\ k \in 1..Len(timers)
  /\ LET p == processQueue(Append(queue, timers[k].item), inflight)
     IN /\ queue' = p.queue
        /\ isProcessing' = p.isProcessing
        /\ inflight' = p.inflight
  /\ attempts' = AttemptsAfter(attempts, Append(queue, timers[k].item))
  /\ timers' = RemoveAt(timers, k)
  /\ UNCHANGED <<retryAttempts, immediates, nextJob, written, dropped, anyFailed,
                 cleared, tableVars, dbVars>>

\* the setTimeout callback: queue.unshift(item); processQueue()
TimerFires(k) ==
  /\ k \in 1..Len(timers)
  /\ LET p == processQueue(<<timers[k].item>> \o queue, inflight)
     IN /\ queue' = p.queue
        /\ isProcessing' = p.isProcessing
        /\ inflight' = p.inflight
  /\ attempts' = AttemptsAfter(attempts, <<timers[k].item>> \o queue)
  /\ timers' = RemoveAt(timers, k)
  /\ UNCHANGED <<retryAttempts, immediates, nextJob, written, dropped, anyFailed,
                 cleared, tableVars, dbVars>>

\* the setImmediate callback: processQueue()
ImmediateRuns ==
  /\ immediates > 0
  /\ immediates' = immediates - 1
  /\ LET p == processQueue(queue, inflight)
     IN /\ queue' = p.queue
        /\ isProcessing' = p.isProcessing
        /\ inflight' = p.inflight
  /\ attempts' = AttemptsAfter(attempts, queue)
  /\ UNCHANGED <<retryAttempts, timers, nextJob, written, dropped, anyFailed,
                 cleared, tableVars, dbVars>>

clear ==
  /\ queue' = <<>>
  /\ retryAttempts' = EmptyMap
  /\ cleared' = cleared \cup {queue[k].data : k \in 1..Len(queue)}
                        \cup {timers[k].item.data : k \in 1..Len(timers)}
  /\ UNCHANGED <<isProcessing, inflight, timers, immediates,
                 nextJob, written, dropped, anyFailed, attempts, tableVars, dbVars>>

(***************************************************************************)
(* Database: the table registry, snapshots and restoration                 *)
(***************************************************************************)
MaxSaves == 2
MaxCalls == 3
DataTypes == {"INTEGER", "FLOAT", "STRING", "BOOLEAN", "DATE"}

\* what fs.readFile finds at dbFilePath: no file, text that is not JSON, or a snapshot
NoFile == [code |-> "ENOENT"]
Corrupt == [code |-> "SyntaxError"]

NoDbCall == [op |-> "none", name |-> "", columns |-> <<>>, result |-> "none", saves |-> 0]

\* no Database is involved
NoDatabase ==
  /\ tables = <<>>
  /\ isInitializing = FALSE
  /\ initPc = "done"
  /\ disk = NoFile
  /\ dbLast = NoDbCall
  /\ calls = 0

\* this.tables, a Map in insertion order, as the sequence of its values
TablesHas(tbls, name) == \E i \in 1..Len(tbls) : tbls[i].name = name
TablesGet(tbls, name) == tbls[CHOOSE i \in 1..Len(tbls) : tbls[i].name = name]
TablesSet(tbls, name, table) ==
  IF TablesHas(tbls, name)
  THEN [i \in 1..Len(tbls) |-> IF tbls[i].name = name THEN table ELSE tbls[i]]
  ELSE Append(tbls, table)
TablesDelete(tbls, name) == LET Other(t) == t.name # name IN SelectSeq(tbls, Other)

listTables(tbls) == [i \in 1..Len(tbls) |-> tbls[i].name]

\* new Table(name, columns, primaryKeyColumn, onChange)
NewTable(name, cols, onChange) ==
  [name |-> name, columns |-> cols, rows |-> <<>>, indexes |-> createIndexes(cols),
   onChange |-> onChange]

getSchema(table) ==
  [name |-> table.name,
   columns |-> [i \in 1..Len(table.columns) |->
                  [name |-> table.columns[i].name,
                   type |-> table.columns[i].type,
                   primaryKey |-> table.columns[i].primaryKey,
                   unique |-> table.columns[i].unique,
                   nullable |-> table.columns[i].nullable,
                   defaultValue |-> table.columns[i].defaultValue]],
   rowCount |-> Len(table.rows)]

\* the snapshot object; its timestamp is left out, restoration never reads it
toJSON(tbls) ==
  [name |-> "pesapal_db", version |-> "1.0",
   tables |-> [i \in 1..Len(tbls) |->
                 [name |-> tbls[i].name,
                  schema |-> getSchema(tbls[i]),
                  rows |-> select(tbls[i].rows, NoWhere)]]]

\* new Column(colData.name, colData.type, colData.primaryKey || false, colData.unique || false,
\*            colData.nullable !== undefined ? colData.nullable : true, colData.defaultValue)
RestoredColumn(colData) ==
  [name |-> colData.name, type |-> colData.type,
   primaryKey |-> Flag(colData, "primaryKey"), unique |-> Flag(colData, "unique"),
   nullable |-> IF "nullable" \in DOMAIN colData THEN colData.nullable ELSE TRUE,
   defaultValue |-> IF "defaultValue" \in DOMAIN colData THEN colData.defaultValue ELSE NULL]

insertWithoutNotify(table, rowData) ==
  LET validation == validateRow(table.rows, table.indexes, table.columns, rowData)
      row == [c \in ColumnNames(table.columns) |->
                LET column == table.columns[CHOOSE i \in 1..Len(table.columns) :
                                               table.columns[i].name = c]
                IN IF Get(rowData, c) # UNDEF THEN Serialize(column, rowData[c])
                   ELSE column.defaultValue]
      rowIndex == Len(table.rows)
  IN IF ~validation.valid
     THEN [table |-> table, success |-> FALSE, errors |-> validation.errors]
     ELSE [table |-> [table EXCEPT !.rows = Append(table.rows, row),
                                   !.indexes = AddRowToIndexes(table.indexes, table.columns,
                                                               1, row, rowIndex)],
           success |-> TRUE, errors |-> {}]

\* tableData.rows.forEach(rowData => insertWithoutNotify(table, rowData)), a failure only warns
RECURSIVE RestoreRows(_, _, _)
RestoreRows(table, rowDatas, k) ==
  IF k > Len(rowDatas) THEN table
  ELSE RestoreRows(insertWithoutNotify(table, rowDatas[k]).table, rowDatas, k + 1)

\* mutant: the restored table is registered without its onChange callback
RestoredTable_noCallback(tableData) ==
  LET cols == [i \in 1..Len(tableData.schema.columns) |->
                 RestoredColumn(tableData.schema.columns[i])]
      table == NewTable(tableData.name, cols, FALSE)
  IN RestoreRows(table, tableData.rows, 1)

\* the body of restoreFromData's forEach: the table built from one entry of the snapshot
RestoredTable(tableData) ==
  LET cols == [i \in 1..Len(tableData.schema.columns) |->
                 RestoredColumn(tableData.schema.columns[i])]
      table == NewTable(tableData.name, cols, FALSE)
  IN [RestoreRows(table, tableData.rows, 1) EXCEPT !.onChange = TRUE]

RECURSIVE RestoreTables(_, _, _)
RestoreTables(tbls, tableDatas, k) ==
  IF k > Len(tableDatas) THEN tbls
  ELSE RestoreTables(TablesSet(tbls, tableDatas[k].name, RestoredTable(tableDatas[k])),
                     tableDatas, k + 1)

restoreFromData(tbls, savedData) == RestoreTables(tbls, savedData.tables, 1)

\* the rest of loadFromFile: a missing or unparseable file leaves the tables as they are
loadFromFile(tbls, content) ==
  IF content = NoFile \/ content = Corrupt THEN tbls ELSE restoreFromData(tbls, content)

\* mutant: saveToFile enqueues while the database is initializing
saveToFile_ignoresFlag(triggered) ==
  IF triggered
  THEN nextJob < MaxSaves /\ enqueueJob(DbFilePath, toJSON(tables'))
  ELSE UNCHANGED queueVars

\* the effect on the queue of a call that reaches saveToFile, or does not
saveToFile(triggered) ==
  IF triggered /\ ~isInitializing
  THEN nextJob < MaxSaves /\ enqueueJob(DbFilePath, toJSON(tables'))
  ELSE UNCHANGED queueVars

\* the calls made on the database
DbNames == {"t", "u"}
DbRowNames == {"t"}
UniqueDefs == CHOOSE defs \in ColumnDefs : Flag(defs[1], "unique")
DbColumnDefs ==
  ColumnDefs \cup {<<[name |-> "id", type |-> "TEXT", primaryKey |-> TRUE, unique |-> TRUE]>>}
\* the tables the routes are asked to create: t with the columns of the table
\* under test, u with a column of a type outside DataType
DbCreateInputs ==
  { [name |-> "t", columns |-> defs] : defs \in ColumnDefs }
    \cup { [name |-> "u", columns |-> defs] : defs \in DbColumnDefs \ ColumnDefs }
DbInsertInputs == {[id |-> "i1", status |-> "new"], [id |-> "i2", status |-> "old"]}
DbUpdateInputs == {[id |-> UNDEF, status |-> "new"]}
DbUpdateWheres == {NoWhere}
DbDeleteWheres == {[col |-> "status", val |-> "old"]}

\* the files a database may find when it starts
DiskContents ==
  { NoFile, Corrupt,
    JsonSnapshot(toJSON(<<RestoreRows(NewTable("t", tableColumns(UniqueDefs), TRUE),
                                      <<[id |-> "i2", status |-> "old"],
                                        [id |-> "i1", status |-> "new"]>>, 1)>>)) }

\* mutant: createTable registers the new table over an existing one
CreateTable_overwrites(tableName, defs) ==
  /\ calls < MaxCalls
  /\ calls' = calls + 1
  /\ tables' = TablesSet(tables, tableName,
                         NewTable(tableName, tableColumns(defs), TRUE))
  /\ saveToFile(TRUE)
  /\ dbLast' = [op |-> "createTable", name |-> tableName, columns |-> defs,
                result |-> "true", saves |-> nextJob' - nextJob]
  /\ UNCHANGED <<tableVars, isInitializing, initPc, disk>>

CreateTable(tableName, defs) ==
  /\ calls < MaxCalls
  /\ calls' = calls + 1
  /\ IF TablesHas(tables, tableName)
     THEN /\ dbLast' = [op |-> "createTable", name |-> tableName, columns |-> defs,
                        result |-> "throws", saves |-> 0]
          /\ UNCHANGED <<tables, queueVars>>
     ELSE /\ tables' = TablesSet(tables, tableName,
                                 NewTable(tableName, tableColumns(defs), TRUE))
          /\ saveToFile(TRUE)
          /\ dbLast' = [op |-> "createTable", name |-> tableName, columns |-> defs,
                        result |-> "true", saves |-> nextJob' - nextJob]
  /\ UNCHANGED <<tableVars, isInitializing, initPc, disk>>

DropTable(tableName) ==
  /\ calls < MaxCalls
  /\ calls' = calls + 1
  /\ tables' = TablesDelete(tables, tableName)
  /\ saveToFile(TablesHas(tables, tableName))
  /\ dbLast' = [op |-> "dropTable", name |-> tableName, columns |-> <<>>,
                result |-> IF TablesHas(tables, tableName) THEN "true" ELSE "false",
                saves |-> nextJob' - nextJob]
  /\ UNCHANGED <<tableVars, isInitializing, initPc, disk>>

\* mutant: once a snapshot job has been dropped, insert throws and stores nothing
DbInsert_failsAfterDrop(tableName, data) ==
  /\ calls < MaxCalls
  /\ calls' = calls + 1
  /\ TablesHas(tables, tableName)
  /\ \E table \in {TablesGet(tables, tableName)} :
       \E r \in {insert(table.rows, table.indexes, table.columns, data)} :
          /\ Len(r.rows) <= MaxRows
          /\ last' = [op |-> "insert", data |-> data, where |-> NoWhere,
                      success |-> r.success,
                      rowsAffected |-> IF r.success THEN 1 ELSE 0,
                      errors |-> r.errors, rowErrors |-> {}, notified |-> r.notified]
          /\ IF dropped # {}
             THEN UNCHANGED <<tables, queueVars>>
             ELSE /\ tables' = TablesSet(tables, tableName,
                                         [table EXCEPT !.rows = r.rows, !.indexes = r.indexes])
                  /\ saveToFile(r.notified > 0 /\ table.onChange)
  /\ dbLast' = [op |-> "insert", name |-> tableName, columns |-> <<>>,
                result |-> IF dropped # {} THEN "throws" ELSE "returns",
                saves |-> nextJob' - nextJob]
  /\ UNCHANGED <<columns, rows, indexes, returned, isInitializing, initPc, disk>>

\* getTable(tableName).insert(data), the table's onChange being saveToFile
DbInsert(tableName, data) ==
  /\ calls < MaxCalls
  /\ calls' = calls + 1
  /\ TablesHas(tables, tableName)
  /\ \E table \in {TablesGet(tables, tableName)} :
       \E r \in {insert(table.rows, table.indexes, table.columns, data)} :
          /\ Len(r.rows) <= MaxRows
          /\ tables' = TablesSet(tables, tableName,
                                 [table EXCEPT !.rows = r.rows, !.indexes = r.indexes])
          /\ last' = [op |-> "insert", data |-> data, where |-> NoWhere,
                      success |-> r.success,
                      rowsAffected |-> IF r.success THEN 1 ELSE 0,
                      errors |-> r.errors, rowErrors |-> {}, notified |-> r.notified]
          /\ saveToFile(r.notified > 0 /\ table.onChange)
  /\ dbLast' = [op |-> "insert", name |-> tableName, columns |-> <<>>,
                result |-> "returns", saves |-> nextJob' - nextJob]
  /\ UNCHANGED <<columns, rows, indexes, returned, isInitializing, initPc, disk>>

DbUpdate(tableName, updates, where) ==
  /\ calls < MaxCalls
  /\ calls' = calls + 1
  /\ TablesHas(tables, tableName)
  /\ \E table \in {TablesGet(tables, tableName)} :
       \E r \in {update(table.rows, table.indexes, table.columns, updates, where)} :
          /\ tables' = TablesSet(tables, tableName,
                                 [table EXCEPT !.rows = r.rows, !.indexes = r.indexes])
          /\ last' = [op |-> "update", data |-> updates, where |-> where,
                      success |-> r.success, rowsAffected |-> r.rowsAffected,
                      errors |-> {}, rowErrors |-> r.errors, notified |-> r.notified]
          /\ saveToFile(r.notified > 0 /\ table.onChange)
  /\ dbLast' = [op |-> "update", name |-> tableName, columns |-> <<>>,
                result |-> "returns", saves |-> nextJob' - nextJob]
  /\ UNCHANGED <<columns, rows, indexes, returned, isInitializing, initPc, disk>>

DbDelete(tableName, where) ==
  /\ calls < MaxCalls
  /\ calls' = calls + 1
  /\ TablesHas(tables, tableName)
  /\ \E table \in {TablesGet(tables, tableName)} :
       \E r \in {delete(table.rows, table.indexes, table.columns, where)} :
          /\ tables' = TablesSet(tables, tableName,
                                 [table EXCEPT !.rows = r.rows, !.indexes = r.indexes])
          /\ last' = [op |-> "delete", data |-> EmptyMap, where |-> where,
                      success |-> r.success, rowsAffected |-> r.rowsAffected,
                      errors |-> {}, rowErrors |-> {}, notified |-> r.notified]
          /\ saveToFile(r.notified > 0 /\ table.onChange)
  /\ dbLast' = [op |-> "delete", name |-> tableName, columns |-> <<>>,
                result |-> "returns", saves |-> nextJob' - nextJob]
  /\ UNCHANGED <<columns, rows, indexes, returned, isInitializing, initPc, disk>>

\* initializeStorage: await fs.mkdir resolves and loadFromFile starts reading
InitMkdirDone ==
  /\ initPc = "mkdir"
  /\ initPc' = "read"
  /\ UNCHANGED <<tables, isInitializing, disk, dbLast, calls, tableVars, queueVars>>

\* initializeStorage: await fs.mkdir rejects; catch, then finally
InitMkdirFailed ==
  /\ initPc = "mkdir"
  /\ initPc' = "done"
  /\ isInitializing' = FALSE
  /\ UNCHANGED <<tables, disk, dbLast, calls, tableVars, queueVars>>

\* loadFromFile: await fs.readFile settles; the rest of loadFromFile, then finally
InitReadDone ==
  /\ initPc = "read"
  /\ tables' = loadFromFile(tables, disk)
  /\ initPc' = "done"
  /\ isInitializing' = FALSE
  /\ UNCHANGED <<disk, dbLast, calls, tableVars, queueVars>>

(***************************************************************************)
(* Specifications                                                          *)
(***************************************************************************)
\* a table as Database.createTable makes it, and the calls of the routes on it
InitTable ==
  /\ \E defs \in ColumnDefs :
        /\ columns = tableColumns(defs)
        /\ indexes = createIndexes(tableColumns(defs))
  /\ rows = <<>>
  /\ last = NoCall
  /\ returned = NoResult
  /\ InitQueueVars
  /\ NoDatabase

NextTable ==
  \/ \E data \in InsertInputs : Insert(data)
  \/ \E updates \in UpdateInputs, where \in Wheres : Update(updates, where)
  \/ \E where \in Wheres : Delete(where)

SpecTable == InitTable /\ [][NextTable]_vars

\* a table with a BOOLEAN column
InitTableValues ==
  /\ columns = tableColumns(ValueColumnDefs)
  /\ indexes = createIndexes(tableColumns(ValueColumnDefs))
  /\ rows = <<>>
  /\ last = NoCall
  /\ returned = NoResult
  /\ InitQueueVars
  /\ NoDatabase

NextTableValues ==
  \/ \E data \in ValueInsertInputs : Insert(data)
  \/ \E updates \in ValueUpdateInputs, where \in ValueWheres : Update(updates, where)
  \/ \E where \in ValueWheres : Delete(where)

SpecTableValues == InitTableValues /\ [][NextTableValues]_vars

\* the same table, read by a caller that writes into what it was handed
NextTableRead ==
  \/ \E data \in ReadInsertInputs : Insert(data)
  \/ \E updates \in ReadUpdateInputs, where \in ReadUpdateWheres : Update(updates, where)
  \/ \E where \in ReadDeleteWheres : Delete(where)
  \/ \E where \in ReadSelectWheres : Select(where)
  \/ \E lookup \in ReadLookups : FindByIndex(lookup.col, lookup.val)
  \/ \E k \in 1..Len(returned) : ModifyReturned(k, "flag", "old")

SpecTableRead == InitTableValues /\ [][NextTableRead]_vars

\* a FileQueue on its own
InitQueue ==
  /\ columns = <<>>
  /\ rows = <<>>
  /\ indexes = EmptyMap
  /\ last = NoCall
  /\ returned = NoResult
  /\ InitQueueVars
  /\ NoDatabase

NextQueue ==
  \/ \E filePath \in Paths : enqueue(filePath)
  \/ \E k \in 1..Len(inflight) : MkdirDone(k)
  \/ \E k \in 1..Len(inflight) : WriteSucceeded(k)
  \/ \E k \in 1..Len(inflight) : WriteFailed(k)
  \/ \E k \in 1..Len(timers) : TimerFires(k)
  \/ ImmediateRuns
  \/ clear

SpecQueue == InitQueue /\ [][NextQueue]_vars

\* a Database from its construction on, its queue writing, failing and retrying
InitDatabase ==
  /\ columns = <<>>
  /\ rows = <<>>
  /\ indexes = EmptyMap
  /\ last = NoCall
  /\ returned = NoResult
  /\ InitQueueVars
  /\ tables = <<>>
  /\ isInitializing = TRUE
  /\ initPc = "mkdir"
  /\ disk \in DiskContents
  /\ dbLast = NoDbCall
  /\ calls = 0

NextDatabase ==
  \/ \E input \in DbCreateInputs : CreateTable(input.name, input.columns)
  \/ \E tableName \in DbNames : DropTable(tableName)
  \/ \E tableName \in DbRowNames : \E data \in DbInsertInputs : DbInsert(tableName, data)
  \/ \E tableName \in DbRowNames : \E updates \in DbUpdateInputs : \E where \in DbUpdateWheres :
       DbUpdate(tableName, updates, where)
  \/ \E tableName \in DbRowNames : \E where \in DbDeleteWheres : DbDelete(tableName, where)
  \/ InitMkdirDone
  \/ InitMkdirFailed
  \/ InitReadDone
  \/ \E k \in 1..Len(inflight) : MkdirDone(k)
  \/ \E k \in 1..Len(inflight) : WriteSucceeded(k)
  \/ \E k \in 1..Len(inflight) : WriteFailed(k)
  \/ \E k \in 1..Len(timers) : TimerFires(k)
  \/ ImmediateRuns

SpecDatabase == InitDatabase /\ [][NextDatabase]_vars

(***************************************************************************)
(* Properties of the table                                                 *)
(***************************************************************************)
StoredValues == {NULL} \cup IntTokens \cup NumericStrings \cup PlainStrings

\* the positions the index of column c records under value v
Positions(idx, c, v) ==
  IF c \in DOMAIN idx /\ v \in DOMAIN idx[c]
  THEN {idx[c][v][j] : j \in 1..Len(idx[c][v])} ELSE {}

\* the positions of the rows holding v in column c
Holders(rws, c, v) == {p \in 0..(Len(rws) - 1) : rws[p + 1][c] = v}

Present(value) == value # UNDEF /\ value # NULL

\* C1: for every indexed column and every (non-null) value, the index records
\* exactly the positions of the rows holding that value (nothing missing,
\* nothing stale)
C1_IndexExact ==
  \A c \in IndexedNames(columns) : \A v \in StoredValues \ {NULL} :
     Positions(indexes, c, v) = Holders(rows, c, v)

\* C2: no index maps a (non-null) value to more than one position, and no two
\* rows hold the same (non-null) value in an indexed column
C2_AtMostOnePosition ==
  \A c \in IndexedNames(columns) : \A v \in StoredValues \ {NULL} :
     /\ Cardinality(Positions(indexes, c, v)) <= 1
     /\ Cardinality(Holders(rows, c, v)) <= 1

\* C3: an insert whose value in a unique column equals the value an existing
\* row holds there fails with a duplicate error for that column and leaves the
\* rows unchanged, whatever its other fields are
C3_DuplicateInsertRejected ==
  [][\A i \in 1..Len(columns) :
       (/\ last'.op = "insert"
        /\ columns[i].unique
        /\ Present(Get(last'.data, columns[i].name))
        /\ Holders(rows, columns[i].name, Get(last'.data, columns[i].name)) # {})
       => (/\ ~last'.success
           /\ <<"duplicate", columns[i].name>> \in last'.errors
           /\ rows' = rows)]_vars

\* C4: validateRow reports a duplicate for a candidate whose present value in
\* a primaryKey column is held by an existing row, unique flag or not
C4_PrimaryKeyDuplicateReported ==
  \A data \in InsertInputs : \A i \in 1..Len(columns) :
     (/\ columns[i].primaryKey
      /\ Present(Get(data, columns[i].name))
      /\ Holders(rows, columns[i].name, Get(data, columns[i].name)) # {})
     => <<"duplicate", columns[i].name>>
          \in validateRow(rows, indexes, columns, data).errors

\* the rows a predicate does not select, in their order
Remaining(rws, where) == LET Keep(row) == ~Matches(where, row) IN SelectSeq(rws, Keep)

\* C5: delete removes exactly the matching rows, reports their number, keeps
\* the others in order, and every remaining row still resolves through every
\* index at its new position (rows holding null in the column set aside)
C5_DeleteKeepsIndexesResolving ==
  [][last'.op = "delete" =>
       /\ rows' = Remaining(rows, last'.where)
       /\ last'.rowsAffected = Len(rows) - Len(rows')
       /\ \A c \in IndexedNames(columns) : \A p \in 0..(Len(rows') - 1) :
            Present(rows'[p + 1][c]) => p \in Positions(indexes', c, rows'[p + 1][c])]_vars

\* candidates that pass the nullable and type rules of every column
TypeValid(cols, data) ==
  \A i \in 1..Len(cols) : Validate(cols[i], Get(data, cols[i].name))

\* C6: once a delete has removed every row holding v in an indexed column,
\* the index resolves v to nothing and an insert of a row with value v succeeds
C6_DeleteClearsIndex ==
  [][\A i \in 1..Len(columns) : \A v \in StoredValues \ {NULL} :
       (/\ last'.op = "delete"
        /\ IsIndexed(columns[i])
        /\ Holders(rows, columns[i].name, v) # {}
        /\ Holders(rows', columns[i].name, v) = {})
       => (/\ findByIndex(rows', indexes', columns[i].name, v) = <<>>
           /\ \A data \in InsertInputs :
                (TypeValid(columns, data)
                 /\ Serialize(columns[i], Get(data, columns[i].name)) = v)
                => insert(rows', indexes', columns, data).success)]_vars

C6_Witness ==
  /\ last.op = "delete"
  /\ last.where = [col |-> "id", val |-> "i1"]
  /\ last.rowsAffected >= 1
  /\ Len(rows) >= 1
  /\ Holders(rows, "id", "i1") = {}

\* C7: when one row holds key A and none holds B, update({key: B}, key = A)
\* affects one row; afterwards A resolves to nothing, B resolves to exactly the
\* updated row, and every other row and index entry is as before
C7_KeyChangeMovesIndexEntry ==
  [][\A c \in IndexedNames(columns) : \A A \in IntTokens, B \in IntTokens :
       (/\ last'.op = "update"
        /\ last'.where = [col |-> c, val |-> A]
        /\ ObjectKeys(last'.data) = {c}
        /\ last'.data[c] = B
        /\ A # B
        /\ Cardinality(Holders(rows, c, A)) = 1
        /\ Holders(rows, c, B) = {})
       => LET p == CHOOSE q \in Holders(rows, c, A) : TRUE
              updatedRow == [rows[p + 1] EXCEPT ![c] = B]
          IN /\ last'.rowsAffected = 1
             /\ rows' = [rows EXCEPT ![p + 1] = updatedRow]
             /\ findByIndex(rows', indexes', c, A) = <<>>
             /\ findByIndex(rows', indexes', c, B) = <<updatedRow>>
             /\ \A v \in StoredValues \ {A, B} :
                  /\ (v \in DOMAIN indexes'[c]) = (v \in DOMAIN indexes[c])
                  /\ v \in DOMAIN indexes[c] => indexes'[c][v] = indexes[c][v]]_vars

C7_Witness ==
  /\ last.op = "update"
  /\ last.where = [col |-> "id", val |-> "i1"]
  /\ last.data = [id |-> "i2", status |-> UNDEF]
  /\ last.rowsAffected = 1
  /\ Len(rows) >= 2
  /\ Holders(rows, "id", "i1") = {}
  /\ Cardinality(Holders(rows, "id", "i2")) = 1
  /\ Positions(indexes, "id", NULL) # {}

\* C8: an update that selects one row is rejected as a duplicate on a unique
\* column exactly when a row at another position holds the row's new value
C8_UpdateExcludesOwnPosition ==
  [][\A i \in 1..Len(columns) : \A p \in 0..(Len(rows) - 1) :
       (/\ last'.op = "update"
        /\ columns[i].unique
        /\ MatchingPositions(rows, last'.where, 0) = <<p>>
        /\ Present(UpdatedRow(columns, rows[p + 1], last'.data)[columns[i].name]))
       => (<<p, "duplicate", columns[i].name>> \in last'.rowErrors
           <=> \E q \in Holders(rows, columns[i].name,
                                UpdatedRow(columns, rows[p + 1], last'.data)[columns[i].name]) :
                 q # p)]_vars

\* the positions an index holds under a value
Entry(idx, c, v) == IF v \in DOMAIN idx[c] THEN idx[c][v] ELSE <<>>

\* C15: an insert whose candidate fails validation returns success = false
\* with the validation errors and changes neither the rows nor any index nor
\* notifies; an insert whose candidate passes appends exactly one row at
\* position rowCount, adds that position to every indexed column's index
\* under the stored value, changes no other index entry and notifies once
C15_InsertAllOrNothing ==
  [][last'.op = "insert" =>
       LET validation == validateRow(rows, indexes, columns, last'.data)
           rowIndex == Len(rows)
       IN IF ~validation.valid
          THEN /\ ~last'.success
               /\ last'.errors = validation.errors
               /\ last'.errors # {}
               /\ rows' = rows
               /\ indexes' = indexes
               /\ last'.notified = 0
          ELSE /\ last'.success
               /\ last'.errors = {}
               /\ Len(rows') = rowIndex + 1
               /\ \A p \in 1..rowIndex : rows'[p] = rows[p]
               /\ rows'[rowIndex + 1] = NewRow(columns, last'.data)
               /\ DOMAIN indexes' = DOMAIN indexes
               /\ \A c \in IndexedNames(columns) :
                    /\ Entry(indexes', c, rows'[rowIndex + 1][c])
                         = Append(Entry(indexes, c, rows'[rowIndex + 1][c]), rowIndex)
                    /\ \A v \in DOMAIN indexes[c] :
                         v # rows'[rowIndex + 1][c] => Entry(indexes', c, v) = indexes[c][v]
               /\ last'.notified = 1]_vars

C15_Witness ==
  /\ last.op = "insert"
  /\ ~last.success
  /\ <<"duplicate", "id">> \in last.errors
  /\ Len(rows) = 1
  /\ \A c \in IndexedNames(columns) : Entry(indexes, c, rows[1][c]) = <<0>>

\* C16: an update replaces every matched row for which it records no error
\* and leaves every other row and the index entries of its position as they
\* were; it records errors for matched rows only, the first matched row
\* fails exactly when its updated version fails validation, rowsAffected
\* counts the replaced rows, and a row failing stops no other matched row
\* from being replaced
C16_UpdatePartialSuccess ==
  [][last'.op = "update" =>
       LET matched == MatchingPositions(rows, last'.where, 0)
           Failed(p) == \E e \in last'.rowErrors : e[1] = p
           Replaced(p) == SeqIncludes(matched, p) /\ ~Failed(p)
       IN /\ Len(rows') = Len(rows)
          /\ \A p \in 0..(Len(rows) - 1) :
               IF Replaced(p)
               THEN rows'[p + 1] = UpdatedRow(columns, rows[p + 1], last'.data)
               ELSE /\ rows'[p + 1] = rows[p + 1]
                    /\ \A c \in IndexedNames(columns) :
                         \A v \in DOMAIN indexes[c] \cup DOMAIN indexes'[c] :
                            SeqIncludes(Entry(indexes', c, v), p)
                              <=> SeqIncludes(Entry(indexes, c, v), p)
          /\ \A e \in last'.rowErrors : SeqIncludes(matched, e[1])
          /\ Len(matched) > 0 =>
               (Failed(matched[1]) <=>
                  ~validateRow(rows, indexes, columns,
                               UpdatedRow(columns, rows[matched[1] + 1], last'.data)).valid)
          /\ last'.rowsAffected = Cardinality({p \in 0..(Len(rows) - 1) : Replaced(p)})
          /\ last'.success <=> last'.rowErrors = {}
          /\ last'.notified = (IF last'.rowsAffected > 0 THEN 1 ELSE 0)]_vars

C16_Witness ==
  /\ last.op = "update"
  /\ last.where = NoWhere
  /\ last.rowsAffected = 1
  /\ \E e \in last.rowErrors : e[1] = 0
  /\ Len(rows) = 2
  /\ rows[2] = UpdatedRow(columns, rows[2], last.data)

(***************************************************************************)
(* The queue without clear(), which no caller in the repository invokes,   *)
(* under the scheduling the event loop provides: a pending immediate or    *)
(* timer callback runs, and every write attempt terminates.                *)
(***************************************************************************)
NextQueueLive ==
  \/ \E filePath \in Paths : enqueue(filePath)
  \/ \E k \in 1..Len(inflight) : MkdirDone(k)
  \/ \E k \in 1..Len(inflight) : WriteSucceeded(k)
  \/ \E k \in 1..Len(inflight) : WriteFailed(k)
  \/ \E k \in 1..Len(timers) : TimerFires(k)
  \/ ImmediateRuns

AttemptEnds == \E k \in 1..Len(inflight) : MkdirDone(k) \/ WriteSucceeded(k) \/ WriteFailed(k)

SpecQueueLive ==
  /\ InitQueue
  /\ [][NextQueueLive]_vars
  /\ WF_vars(AttemptEnds)
  /\ WF_vars(\E k \in 1..Len(timers) : TimerFires(k))
  /\ WF_vars(ImmediateRuns)

(***************************************************************************)
(* Properties of the queue                                                 *)
(***************************************************************************)
\* C9: at most one write is in flight at any moment
C9_SingleWriter == Len(inflight) <= 1

C9_Witness ==
  /\ Len(inflight) = 1
  /\ inflight[1].phase = "writeFile"
  /\ Len(queue) >= 2
  /\ anyFailed
  /\ RetryCount(retryAttempts, inflight[1].item.filePath) >= 1

Idle == Len(queue) = 0 /\ ~isProcessing
Settled(j) == written[j] >= 1 \/ j \in dropped

\* C10: every enqueued job is eventually written or dropped after exhausting
\* its retries, the queue returns to idle with every job settled, and when no
\* attempt has failed every enqueued job has been written exactly once
C10_EveryJobSettles ==
  /\ \A j \in 1..MaxJobs : [](nextJob >= j => <>(nextJob >= j /\ Settled(j)))
  /\ [](~Idle => <>Idle)
  /\ [](Idle => \A j \in 1..nextJob : Settled(j))
  /\ [](\A j \in 1..nextJob : written[j] <= 1 /\ ~(written[j] = 1 /\ j \in dropped))
  /\ []((Idle /\ ~anyFailed) => \A j \in 1..nextJob : written[j] = 1)

C10_Witness ==
  /\ Idle
  /\ nextJob >= 2
  /\ dropped # {}
  /\ \E j \in 1..nextJob : written[j] = 1
  /\ \A j \in 1..nextJob : Settled(j)

\* the jobs waiting in the queue, in flight, or waiting out a backoff delay
Queued == {queue[k].data : k \in 1..Len(queue)}
InFlight == {inflight[k].item.data : k \in 1..Len(inflight)}
Delayed == {timers[k].item.data : k \in 1..Len(timers)}

\* C11: a job gets at most MAX_RETRIES + 1 write attempts and a destination's
\* retry counter never exceeds MAX_RETRIES; a successful attempt writes the
\* payload and leaves the destination's counter at zero; the failure of the
\* last allowed attempt drops the job with its counter cleared and schedules
\* the processing of the next job; a dropped job is never attempted again,
\* and the job after it does get attempted
C11_RetryPolicy ==
  /\ [](\A j \in 1..nextJob : attempts[j] <= MAX_RETRIES + 1)
  /\ [](\A p \in Paths : RetryCount(retryAttempts, p) <= MAX_RETRIES)
  /\ [](\A j \in dropped :
         /\ attempts[j] = MAX_RETRIES + 1
         /\ written[j] = 0
         /\ j \notin Queued \cup InFlight \cup Delayed)
  /\ [][\A k \in 1..Len(inflight) :
          written'[inflight[k].item.data] > written[inflight[k].item.data]
            => /\ RetryCount(retryAttempts', inflight[k].item.filePath) = 0
               /\ immediates' = immediates + 1]_vars
  /\ [][\A k \in 1..Len(inflight) :
          inflight[k].item.data \in dropped' \ dropped
            => /\ attempts[inflight[k].item.data] = MAX_RETRIES + 1
               /\ RetryCount(retryAttempts, inflight[k].item.filePath) = MAX_RETRIES
               /\ RetryCount(retryAttempts', inflight[k].item.filePath) = 0
               /\ immediates' = immediates + 1]_vars
  /\ [][\A j \in dropped : attempts'[j] = attempts[j]]_vars
  /\ \A j \in 1..MaxJobs : (j \in dropped /\ nextJob > j) ~> (nextJob > j /\ attempts[j + 1] >= 1)

C11_Witness ==
  /\ \E j \in dropped : nextJob > j /\ attempts[j + 1] >= 1
  /\ \E i \in 1..nextJob : written[i] = 1 /\ attempts[i] = MAX_RETRIES
  /\ \A p \in Paths : RetryCount(retryAttempts, p) = 0

\* the write attempts started for job j before it was enqueued: none
AttemptsOf(j) == IF j <= nextJob THEN attempts[j] ELSE 0

\* C12: a write attempt starts for a job only when every job enqueued before
\* it has been written or dropped; the pending jobs wait in enqueue order
\* behind the job in flight or in its backoff delay; and a job whose backoff
\* delay ends is attempted at once, ahead of the jobs enqueued meanwhile
C12_EnqueueOrder ==
  /\ [][\A j \in 1..nextJob' :
          attempts'[j] > AttemptsOf(j) => \A i \in 1..(j - 1) : Settled(i)]_vars
  /\ [](\A k \in 1..Len(queue) : \A l \in 1..Len(queue) :
          k < l => queue[k].data < queue[l].data)
  /\ [](\A j \in InFlight \cup Delayed : \A i \in Queued : j < i)
  /\ [][\A k \in 1..Len(timers) :
          Len(timers') < Len(timers) /\ timers[k].item.data \notin Delayed'
            => /\ timers[k].item.data \in InFlight'
               /\ queue' = queue]_vars

C12_Witness ==
  /\ Len(queue) >= 2
  /\ \E j \in InFlight : attempts[j] >= 2 /\ \A i \in 1..(j - 1) : Settled(i)
  /\ dropped # {}

(***************************************************************************)
(* Database properties                                                     *)
(***************************************************************************)
\* C13: restoring a new database from the snapshot of the current tables
\* gives the same table names in the same order and, for every table, as
\* many rows as the snapshot records for it
C13_RestoreKeepsRows ==
  LET snapshot == JsonSnapshot(toJSON(tables))
      restored == restoreFromData(<<>>, snapshot)
  IN /\ listTables(restored) = listTables(tables)
     /\ \A i \in 1..Len(restored) :
          /\ Len(restored[i].rows) = snapshot.tables[i].schema.rowCount
          /\ Len(restored[i].rows) = Len(snapshot.tables[i].rows)

\* C14: the initializing flag is set from construction until the start-up
\* load has finished, whether it restored a snapshot, found none, or could
\* not read it; while the flag is set no step enqueues a job, neither the
\* restoration nor a call that would otherwise trigger a save; and the step
\* that ends the load leaves the tables the load produces
C14_NoSaveWhileInitializing ==
  /\ [](isInitializing <=> initPc # "done")
  /\ [][isInitializing => UNCHANGED queueVars]_vars
  /\ [][initPc = "read" /\ initPc' = "done"
         => /\ tables' = loadFromFile(tables, disk)
            /\ ~isInitializing'
            /\ nextJob' = 0]_vars
  /\ [][~isInitializing => ~isInitializing']_vars

C14_Witness ==
  /\ initPc = "done"
  /\ ~isInitializing
  /\ nextJob = 0
  /\ Len(queue) = 0
  /\ Len(tables) = 2
  /\ \E i \in 1..Len(tables) : Len(tables[i].rows) = 2 /\ tables[i].onChange
  /\ dbLast.op = "insert"
  /\ last.success

\* C17: a step of the persistence queue (a write succeeding, failing, being
\* retried or dropped) changes no table, row or index and no value returned
\* to a caller; the only call that throws is createTable for a registered
\* name; and what a call returns and leaves in memory is what the table
\* operation gives on the tables the call found, whatever the writes did
C17_FireAndForget ==
  /\ [][calls' = calls /\ initPc' = initPc => UNCHANGED <<tables, last, dbLast>>]_vars
  /\ [][calls' # calls /\ dbLast'.result = "throws"
          => dbLast'.op = "createTable" /\ TablesHas(tables, dbLast'.name)]_vars
  /\ [][calls' # calls /\ dbLast'.op = "createTable" /\ ~TablesHas(tables, dbLast'.name)
          => /\ dbLast'.result = "true"
             /\ tables' = Append(tables, NewTable(dbLast'.name,
                                                  tableColumns(dbLast'.columns), TRUE))]_vars
  /\ [][calls' # calls /\ dbLast'.op = "dropTable"
          => /\ dbLast'.result = (IF TablesHas(tables, dbLast'.name) THEN "true" ELSE "false")
             /\ tables' = TablesDelete(tables, dbLast'.name)]_vars
  /\ [][calls' # calls /\ dbLast'.op \in {"insert", "update", "delete"}
          => LET table == TablesGet(tables, dbLast'.name)
                 r == CASE dbLast'.op = "insert" ->
                             insert(table.rows, table.indexes, table.columns, last'.data)
                        [] dbLast'.op = "update" ->
                             update(table.rows, table.indexes, table.columns,
                                    last'.data, last'.where)
                        [] dbLast'.op = "delete" ->
                             delete(table.rows, table.indexes, table.columns, last'.where)
             IN /\ dbLast'.result = "returns"
                /\ last'.success = r.success
                /\ tables' = TablesSet(tables, dbLast'.name,
                                       [table EXCEPT !.rows = r.rows,
                                                     !.indexes = r.indexes])]_vars

C17_Witness ==
  /\ 1 \in dropped
  /\ nextJob = 2
  /\ written[2] = 1
  /\ attempts[2] >= 2
  /\ dbLast.op = "insert"
  /\ dbLast.result = "returns"
  /\ dbLast.saves = 1
  /\ last.success
  /\ \E i \in 1..Len(tables) : Len(tables[i].rows) = 1

\* C18: createTable with a registered name throws and changes nothing: the
\* registry with its tables, rows and indexes stays as it is and no job is
\* enqueued
C18_DuplicateTableRejected ==
  [][calls' # calls /\ dbLast'.op = "createTable" /\ TablesHas(tables, dbLast'.name)
       => /\ dbLast'.result = "throws"
          /\ dbLast'.saves = 0
          /\ tables' = tables
          /\ UNCHANGED queueVars]_vars

C18_Witness ==
  /\ dbLast.op = "createTable"
  /\ dbLast.result = "throws"
  /\ ~isInitializing
  /\ nextJob = 2
  /\ TablesHas(tables, dbLast.name)
  /\ Len(TablesGet(tables, dbLast.name).rows) = 1
  /\ tableColumns(dbLast.columns) # TablesGet(tables, dbLast.name).columns

\* a column definition naming a type that is none of the data types
UnrecognizedType(defs) == \E i \in 1..Len(defs) : defs[i].type \notin DataTypes

\* C19: createTable with a column definition of an unrecognized type fails
\* and registers no table
C19_UnknownTypeRejected ==
  [][calls' # calls /\ dbLast'.op = "createTable" /\ UnrecognizedType(dbLast'.columns)
       => /\ dbLast'.result = "throws"
          /\ tables' = tables]_vars

C25_IndexSound ==
  \A c \in DOMAIN indexes : \A v \in DOMAIN indexes[c] :
     /\ \A k \in 1..Len(indexes[c][v]) :
          /\ indexes[c][v][k] >= 0
          /\ indexes[c][v][k] < Len(rows)
          /\ rows[indexes[c][v][k] + 1][c] = v
          /\ \A l \in 1..Len(indexes[c][v]) : l # k => indexes[c][v][l] # indexes[c][v][k]
     /\ LET found == findByIndex(rows, indexes, c, v)
        IN \A k \in 1..Len(found) : c \in DOMAIN found[k] /\ found[k][c] = v

C25_Witness ==
  /\ last.op = "delete"
  /\ last.rowsAffected = 1
  /\ Len(rows) = 1
  /\ \E c \in DOMAIN indexes : \E v \in DOMAIN indexes[c] : indexes[c][v] = <<0>>

(***************************************************************************)
(* Properties of clear() and of the retry delay                            *)
(***************************************************************************)
\* C21: a clear() that discards jobs leaves the queue empty and every retry
\* counter at zero, and a job it discarded (one waiting in the queue or
\* waiting out its backoff delay when clear() was called) never gets a
\* further write attempt
C21_ClearDiscardsPending ==
  /\ [][cleared' # cleared
          => /\ Len(queue') = 0
             /\ \A p \in Paths : RetryCount(retryAttempts', p) = 0]_vars
  /\ [][\A j \in cleared : attempts'[j] = attempts[j]]_vars

ValuesOf(result) == [k \in 1..Len(result) |-> result[k].value]

\* C22: select and findByIndex leave rows and indexes as they are and notify
\* nobody; select returns exactly the rows satisfying the predicate, in
\* position order; findByIndex returns nothing for an unindexed column or an
\* absent value; a table mutation leaves a returned sequence as it is, and an
\* assignment to a returned row leaves the table as it is
C22_ReadsCopy ==
  /\ [][last'.op \in {"select", "findByIndex"}
          => rows' = rows /\ indexes' = indexes /\ last'.notified = 0]_vars
  /\ [](last.op = "select"
          => LET pos == MatchingPositions(rows, last.where, 0)
             IN ValuesOf(returned) = [k \in 1..Len(pos) |-> rows[pos[k] + 1]])
  /\ [](last.op = "findByIndex"
             /\ (last.where.col \notin IndexedNames(columns)
                   \/ \A k \in 1..Len(rows) : rows[k][last.where.col] # last.where.val)
          => returned = <<>>)
  /\ [][last'.op \in {"insert", "update", "delete"} => returned' = returned]_vars
  /\ [][last'.op = "modifyReturned" => rows' = rows /\ indexes' = indexes]_vars

C22_Witness ==
  /\ last.op = "modifyReturned"
  /\ Len(rows) = 2
  /\ Len(returned) = 1
  /\ returned[1].value.id = rows[2].id
  /\ returned[1].value.flag = "old"
  /\ rows[2].flag = "true"

\* C28: every stored row has exactly the declared column names as its keys,
\* each with a value; an insert that leaves a column out stores the column's
\* default there; an update with a key naming no column changes no row
C28_RowKeys ==
  /\ [](\A k \in 1..Len(rows) :
          /\ DOMAIN rows[k] = ColumnNames(columns)
          /\ \A c \in DOMAIN rows[k] : rows[k][c] # UNDEF)
  /\ [](last.op = "insert" /\ last.success
          => \A i \in 1..Len(columns) :
                Get(last.data, columns[i].name) = UNDEF
                  => rows[Len(rows)][columns[i].name] = columns[i].defaultValue)
  /\ [][last'.op = "update" /\ ObjectKeys(last'.data) \cap ColumnNames(columns) = {}
          => rows' = rows]_vars

C28_Witness ==
  /\ last.op = "insert"
  /\ last.success
  /\ "extra" \in DOMAIN last.data
  /\ "flag" \notin DOMAIN last.data
  /\ rows[Len(rows)] = [id |-> "i2", flag |-> NULL]

\* the boolean a value accepted for a BOOLEAN column denotes
Denotes(value) == IF value \in {"true", "i1", "'true'"} THEN "true" ELSE "false"

\* C29: a value accepted for the BOOLEAN column is stored as the boolean it
\* denotes, by insert and by update
C29_BooleanAsDenoted ==
  /\ [](last.op = "insert" /\ last.success /\ Get(last.data, "flag") # UNDEF
          => rows[Len(rows)].flag = Denotes(last.data.flag))
  /\ [][last'.op = "update" /\ Get(last'.data, "flag") # UNDEF
          => \A k \in 1..Len(rows') :
                k <= Len(rows) /\ rows'[k] # rows[k]
                  => rows'[k].flag = Denotes(last'.data.flag)]_vars

(***************************************************************************)
(* Properties of notification, of the saved file and of restoration        *)
(***************************************************************************)
\* the jobs the queue holds, waiting, in flight or delayed
JobItems ==
  {queue[k] : k \in 1..Len(queue)} \cup {inflight[k].item : k \in 1..Len(inflight)}
    \cup {timers[k].item : k \in 1..Len(timers)}

QueueIdle == Len(queue) = 0 /\ Len(inflight) = 0 /\ Len(timers) = 0

\* the last call on the database was a committed mutation
LastCallCommitted ==
  \/ dbLast.op \in {"createTable", "dropTable"} /\ dbLast.result = "true"
  \/ dbLast.op = "insert" /\ last.success
  \/ dbLast.op \in {"update", "delete"} /\ last.rowsAffected >= 1

\* C26: no write attempt having failed, whenever the queue is idle after a
\* committed mutation the file holds a snapshot of the tables as they are
C26_IdleMeansSaved ==
  [](QueueIdle /\ ~anyFailed /\ LastCallCommitted => disk = JsonSnapshot(toJSON(tables)))

\* C27: the step that ends initialization keeps every table registered before
\* it, rows included
C27_RestoreKeepsCreated ==
  [][initPc = "read" /\ initPc' = "done"
       => \A i \in 1..Len(tables) :
             /\ TablesHas(tables', tables[i].name)
             /\ TablesGet(tables', tables[i].name) = tables[i]]_vars

====
